---- MODULE Spec2Model ----
(***************************************************************************)
(* Update/delete coordinators of the Nextcloud DAV gateway                 *)
(* (src/app/src/nextcloud/contacts.py, src/app/src/nextcloud/events.py),   *)
(* the DAV verbs they issue, the audit recorder                            *)
(* (src/app/src/common/audit.py), the retry loop of BaseDavClient._request *)
(* (src/app/src/nextcloud/libs/dav_clients.py) and the authentication      *)
(* cache and circuit breaker (src/app/src/common/sec.py).                  *)
(*                                                                         *)
(* A coordinator call is a sequence of awaits; each await that reaches the *)
(* remote server is one action, so calls interleave between their fetch    *)
(* and their write exactly as coroutines do.  Authentication is taken to   *)
(* succeed, and get_event is taken as events.py uses it: its result is     *)
(* None exactly when the server answers 404.                               *)
(***************************************************************************)
EXTENDS Integers, Sequences, FiniteSets, TLC

\* ------------------------------------------------------------------ bounds
MaxCalls == 2
MaxEtag == 3
MaxRecs == 2

CallIds == 1..MaxCalls
RecIds == 1..MaxRecs
Kinds == {"contact", "event"}
UIDs == {"u1"}
\* The content of a resource no call of the model has written yet.
InitialPayload == MaxCalls + 1

\* An absent etag (header or field not set).
NoEtag == 0
\* What the server holds for a UID that has no resource.
NoResource == [present |-> FALSE, payload |-> 0, etag |-> NoEtag]

Resource(p, e) == [present |-> TRUE, payload |-> p, etag |-> e]

VARIABLES
    server,     \* server[k][u]: the resource the remote DAV server holds
    nextEtag,   \* the next etag the server assigns
    calls,      \* calls[c]: one update/delete call of the gateway
    auditLog,   \* the lines of the audit log file, oldest first
    rec,        \* rec[r]: one record_change call
    job,        \* one call of a reminder / duration / timezone helper
    req,        \* one call of BaseDavClient._request
    circuit,    \* sec.py: _circuit_state
    authCache,  \* sec.py: auth_cache, the keys it holds and their user
    clock,      \* time.monotonic()
    authCalls,  \* authCalls[a]: one authenticate_with_nextcloud call
    authHist    \* what the identity provider answered so far

vars == <<server, nextEtag, calls, auditLog, rec, job, req, circuit, authCache, clock, authCalls, authHist>>

\* ------------------------------------------------------- remote DAV server
\* PUT with an optional If-Match header.  A PUT on a missing URL without a
\* precondition either creates the resource (201) or is refused (404).
ServerPut(res, ifMatch, payload, tag, create) ==
    IF ifMatch # NoEtag /\ (~res.present \/ res.etag # ifMatch)
    THEN [status |-> 412, res |-> res, etag |-> NoEtag]
    ELSE IF res.present
    THEN [status |-> 204, res |-> Resource(payload, tag), etag |-> tag]
    ELSE IF create
    THEN [status |-> 201, res |-> Resource(payload, tag), etag |-> tag]
    ELSE [status |-> 404, res |-> res, etag |-> NoEtag]

\* DELETE with an optional If-Match header.
ServerDelete(res, ifMatch) ==
    IF ~res.present
    THEN [status |-> 404, res |-> res]
    ELSE IF ifMatch # NoEtag /\ res.etag # ifMatch
    THEN [status |-> 412, res |-> res]
    ELSE [status |-> 204, res |-> NoResource]

\* ----------------------------------------------------------- call records
NoResult == [outcome |-> "none", error |-> "", status |-> 0, value |-> "none",
             etag |-> NoEtag, current |-> NoResource]

Returned(value, etag) ==
    [outcome |-> "returned", error |-> "", status |-> 0, value |-> value,
     etag |-> etag, current |-> NoResource]

Raised(error, status) ==
    [outcome |-> "raised", error |-> error, status |-> status, value |-> "none",
     etag |-> NoEtag, current |-> NoResource]

IdleCall ==
    [op |-> "none", kind |-> "none", uid |-> "none", payload |-> 0,
     etag |-> NoEtag, pc |-> "idle", existing |-> NoResource,
     result |-> NoResult,
     \* history of the call, read by the properties only
     fetched |-> FALSE, wrote |-> FALSE, ifMatch |-> NoEtag,
     pre |-> NoResource, applied |-> FALSE, newEtag |-> NoEtag]

\* ------------------------------------------------------------ status maps
\* handle_caldav_response_status: the status it raises with (0: returns).
handle_caldav_response_status(status) ==
    IF status = 401 THEN 401
    ELSE IF status = 403 THEN 403
    ELSE IF status = 404 THEN 404
    ELSE IF status >= 500 THEN 500
    ELSE IF status # 207 /\ status # 200 THEN status
    ELSE 0

\* handle_response_status (CardDAV): the status it raises with (0: returns).
handle_response_status(status) ==
    IF status = 401 THEN 401
    ELSE IF status = 403 THEN 403
    ELSE IF status = 404 THEN 404
    ELSE IF status >= 500 THEN 500
    ELSE IF status # 207 THEN status
    ELSE 0

\* CalDavClient.update_event: the If-Match header is set only for an etag.
CalDavClient_update_event(res, etag, payload, tag, create) ==
    LET r == ServerPut(res, etag, payload, tag, create)
        err == IF r.status \notin {200, 204}
               THEN handle_caldav_response_status(r.status) ELSE 0
    IN [res |-> r.res, raised |-> err, etag |-> r.etag, ifMatch |-> etag]

CalDavClient_delete_event_strict(res, etag) ==
    LET r == ServerDelete(res, etag)
        err == IF r.status \in {200, 204}
               THEN 0 ELSE handle_caldav_response_status(r.status)
    IN [res |-> r.res, raised |-> err,
        deleted |-> (r.status # 404), ifMatch |-> etag]

\* CalDavClient.delete_event: TRUE on 200/204, FALSE on 404.
CalDavClient_delete_event(res, etag) ==
    LET r == ServerDelete(res, etag)
        err == IF r.status \in {200, 204, 404}
               THEN 0 ELSE handle_caldav_response_status(r.status)
    IN [res |-> r.res, raised |-> err,
        deleted |-> (r.status # 404), ifMatch |-> etag]

\* update_contact's handling of the PUT status: what it raises (0: returns).
update_contact_status(status) ==
    IF status \in {200, 201, 204} THEN 0
    ELSE IF status = 404 THEN 404
    ELSE IF status = 405 THEN 405
    ELSE handle_response_status(status)

\* delete_contact's handling of the DELETE status: what it raises (0: returns).
delete_contact_status(status) ==
    IF status \in {200, 204} THEN 0
    ELSE IF status = 404 THEN 404
    ELSE IF status = 405 THEN 405
    ELSE handle_response_status(status)

update_event_after_fetch_again(existing) ==
    IF ~existing.present
    THEN [pc |-> "done", result |-> Raised("ValueError", 0)]
    ELSE [pc |-> "fetching", result |-> NoResult]

\* update_event after its existence check: a missing event ends the call
\* with ValueError("Event with UID ... not found").
update_event_after_fetch(existing) ==
    IF ~existing.present
    THEN [pc |-> "done", result |-> Raised("ValueError", 0)]
    ELSE [pc |-> "writing", result |-> NoResult]

\* delete_event after its existence check: a missing event ends the call
\* with the return value False.
delete_event_after_fetch(existing) ==
    IF ~existing.present
    THEN [pc |-> "done", result |-> Returned("not_present", NoEtag)]
    ELSE [pc |-> "writing", result |-> NoResult]

\* No helper call is in progress.
IdleJob == [fn |-> "none", pc |-> "idle"]

\* No _request call is in progress.
IdleReq == [pc |-> "idle"]

\* sec.py at import: breaker closed, cache empty, no call in progress.
MaxAuthCalls == 2
AuthIds == 1..MaxAuthCalls
ClosedCircuit == [failures |-> 0, open_until |-> 0]
IdleAuth == [pc |-> "idle"]
NoHist == [failed |-> FALSE, run |-> 0, runx |-> 0, confirmed |-> {}]

\* The parts of the program a specification leaves at rest.
NoRequest == req = IdleReq
NoAuth ==
    /\ circuit = ClosedCircuit
    /\ authCache = {}
    /\ clock = 1
    /\ authCalls = [a \in AuthIds |-> IdleAuth]
    /\ authHist = NoHist

\* ------------------------------------------------------------------- Init
Init ==
    /\ server \in [Kinds -> [UIDs -> {NoResource, Resource(InitialPayload, 1)}]]
    /\ nextEtag = 2
    /\ calls = [c \in CallIds |-> IdleCall]
    /\ auditLog = <<>>
    /\ rec = [r \in RecIds |-> [pc |-> "idle", line |-> <<>>, outcome |-> "none"]]
    /\ job = IdleJob
    /\ NoRequest
    /\ NoAuth

\* ------------------------------------------------------ coordinator calls
\* A caller invokes update_contact / update_event with a payload that may
\* carry the etag it last saw, or delete_contact / delete_event with a UID.
\* Event calls begin with get_event_by_uid; contact calls go straight to
\* their single request.
StartCall(c, op, k, u, etag) ==
    /\ calls[c].pc = "idle"
    /\ \A d \in CallIds : d < c => calls[d].pc # "idle"
    /\ op = "delete" => etag = NoEtag
    /\ calls' = [calls EXCEPT ![c] =
            [IdleCall EXCEPT !.op = op, !.kind = k, !.uid = u,
                             !.payload = IF op = "update" THEN c ELSE 0,
                             !.etag = etag,
                             !.pc = IF k = "event" THEN "fetching" ELSE "writing"]]
    /\ UNCHANGED <<server, nextEtag, auditLog, rec, job, req, circuit, authCache, clock, authCalls, authHist>>

\* update_event, up to and including its existence check.
UpdateEventFetch(c) ==
    LET call == calls[c]
        existing == server[call.kind][call.uid]
        nxt == update_event_after_fetch(existing)
    IN /\ call.pc = "fetching" /\ call.op = "update" /\ call.kind = "event"
       /\ calls' = [calls EXCEPT ![c] =
               [call EXCEPT !.existing = existing, !.fetched = TRUE,
                            !.pc = nxt.pc, !.result = nxt.result]]
       /\ UNCHANGED <<server, nextEtag, auditLog, rec, job, req, circuit, authCache, clock, authCalls, authHist>>

\* update_event from event_to_ical to its return: the PUT carries no etag,
\* the etag the client returns is dropped, and the caller's own Event object
\* is returned.
UpdateEventWrite(c) ==
    LET call == calls[c]
        cur == server[call.kind][call.uid]
    IN /\ call.pc = "writing" /\ call.op = "update" /\ call.kind = "event"
       /\ nextEtag <= MaxEtag
       /\ \E create \in BOOLEAN :
            LET w == CalDavClient_update_event(cur, NoEtag, call.payload,
                                               nextEtag, create)
            IN /\ server' = [server EXCEPT ![call.kind][call.uid] = w.res]
               /\ nextEtag' = IF w.res # cur THEN nextEtag + 1 ELSE nextEtag
               /\ calls' = [calls EXCEPT ![c] =
                       [call EXCEPT !.pc = "done", !.wrote = TRUE,
                                    !.ifMatch = w.ifMatch, !.pre = cur,
                                    !.applied = (w.res # cur),
                                    !.newEtag = w.etag,
                                    !.result = IF w.raised # 0
                                               THEN Raised("HTTPException", w.raised)
                                               ELSE Returned("resource", call.etag)]]
       /\ UNCHANGED <<auditLog, rec, job, req, circuit, authCache, clock, authCalls, authHist>>

\* delete_event, up to and including its existence check.
DeleteEventFetch(c) ==
    LET call == calls[c]
        existing == server[call.kind][call.uid]
        nxt == delete_event_after_fetch(existing)
    IN /\ call.pc = "fetching" /\ call.op = "delete" /\ call.kind = "event"
       /\ calls' = [calls EXCEPT ![c] =
               [call EXCEPT !.existing = existing, !.fetched = TRUE,
                            !.pc = nxt.pc, !.result = nxt.result]]
       /\ UNCHANGED <<server, nextEtag, auditLog, rec, job, req, circuit, authCache, clock, authCalls, authHist>>

\* delete_event from client.delete_event to its return: the DELETE carries
\* no etag; a 404 answer gives False.
DeleteEventWrite(c) ==
    LET call == calls[c]
        cur == server[call.kind][call.uid]
        w == CalDavClient_delete_event(cur, NoEtag)
    IN /\ call.pc = "writing" /\ call.op = "delete" /\ call.kind = "event"
       /\ server' = [server EXCEPT ![call.kind][call.uid] = w.res]
       /\ calls' = [calls EXCEPT ![c] =
               [call EXCEPT !.pc = "done", !.wrote = TRUE,
                            !.ifMatch = w.ifMatch, !.pre = cur,
                            !.applied = (w.res # cur),
                            !.result = IF w.raised # 0
                                       THEN Raised("HTTPException", w.raised)
                                       ELSE IF w.deleted
                                       THEN Returned("deleted", NoEtag)
                                       ELSE Returned("not_present", NoEtag)]]
       /\ UNCHANGED <<nextEtag, auditLog, rec, job, req, circuit, authCache, clock, authCalls, authHist>>

\* update_contact: one PUT with the vCard headers (no If-Match), no fetch
\* before it, and the caller's own Contact object returned on 200/201/204.
UpdateContact(c) ==
    LET call == calls[c]
        cur == server[call.kind][call.uid]
    IN /\ call.pc = "writing" /\ call.op = "update" /\ call.kind = "contact"
       /\ nextEtag <= MaxEtag
       /\ \E create \in BOOLEAN :
            LET r == ServerPut(cur, NoEtag, call.payload, nextEtag, create)
                err == update_contact_status(r.status)
            IN /\ server' = [server EXCEPT ![call.kind][call.uid] = r.res]
               /\ nextEtag' = IF r.res # cur THEN nextEtag + 1 ELSE nextEtag
               /\ calls' = [calls EXCEPT ![c] =
                       [call EXCEPT !.pc = "done", !.wrote = TRUE,
                                    !.ifMatch = NoEtag, !.pre = cur,
                                    !.applied = (r.res # cur),
                                    !.newEtag = r.etag,
                                    !.result = IF err # 0
                                               THEN Raised("HTTPException", err)
                                               ELSE Returned("resource", call.etag)]]
       /\ UNCHANGED <<auditLog, rec, job, req, circuit, authCache, clock, authCalls, authHist>>

\* delete_contact: one DELETE with the authorization header only; a 404
\* answer is raised as HTTPException(404).
DeleteContact(c) ==
    LET call == calls[c]
        cur == server[call.kind][call.uid]
        r == ServerDelete(cur, NoEtag)
        err == delete_contact_status(r.status)
    IN /\ call.pc = "writing" /\ call.op = "delete" /\ call.kind = "contact"
       /\ server' = [server EXCEPT ![call.kind][call.uid] = r.res]
       /\ calls' = [calls EXCEPT ![c] =
               [call EXCEPT !.pc = "done", !.wrote = TRUE,
                            !.ifMatch = NoEtag, !.pre = cur,
                            !.applied = (r.res # cur),
                            !.result = IF err # 0
                                       THEN Raised("HTTPException", err)
                                       ELSE Returned("deleted", NoEtag)]]
       /\ UNCHANGED <<nextEtag, auditLog, rec, job, req, circuit, authCache, clock, authCalls, authHist>>

Next ==
    \/ \E c \in CallIds, op \in {"update", "delete"}, k \in Kinds,
          u \in UIDs, etag \in 0..MaxEtag : StartCall(c, op, k, u, etag)
    \/ \E c \in CallIds : UpdateEventFetch(c)
    \/ \E c \in CallIds : UpdateEventWrite(c)
    \/ \E c \in CallIds : DeleteEventFetch(c)
    \/ \E c \in CallIds : DeleteEventWrite(c)
    \/ \E c \in CallIds : UpdateContact(c)
    \/ \E c \in CallIds : DeleteContact(c)

Spec == Init /\ [][Next]_vars

\* --------------------------------------------------------- audit recorder
AuditActions == {"create", "update", "delete", "conflict"}
Snapshots == {NoResource, Resource(1, 1)}

\* record_change up to its await: the entry is built and serialised.
RecordChange(r, resource_type, uid, action, before, after) ==
    /\ rec[r].pc = "idle"
    /\ \A q \in RecIds : q < r => rec[q].pc # "idle"
    /\ rec' = [rec EXCEPT ![r] =
            [pc |-> "to_thread",
             line |-> <<[resource |-> resource_type, action |-> action,
                         uid |-> uid, before |-> before, after |-> after]>>,
             outcome |-> "none"]]
    /\ UNCHANGED <<server, nextEtag, calls, auditLog, job, req, circuit, authCache, clock, authCalls, authHist>>

WriteEntry_truncating(r) ==
    /\ rec[r].pc = "to_thread"
    /\ \E ok \in BOOLEAN :
         /\ auditLog' = IF ok THEN rec[r].line ELSE auditLog
         /\ rec' = [rec EXCEPT ![r].pc = "done",
                               ![r].outcome = IF ok THEN "returned" ELSE "raised"]
    /\ UNCHANGED <<server, nextEtag, calls, job, req, circuit, authCache, clock, authCalls, authHist>>

\* _write_entry in its worker thread, and record_change's return: the line
\* is appended to the file, or mkdir/open/write raises and the exception
\* leaves record_change through its await.
WriteEntry(r) ==
    /\ rec[r].pc = "to_thread"
    /\ \E ok \in BOOLEAN :
         /\ auditLog' = IF ok THEN auditLog \o rec[r].line ELSE auditLog
         /\ rec' = [rec EXCEPT ![r].pc = "done",
                               ![r].outcome = IF ok THEN "returned" ELSE "raised"]
    /\ UNCHANGED <<server, nextEtag, calls, job, req, circuit, authCache, clock, authCalls, authHist>>

NextAudit ==
    \/ \E r \in RecIds, k \in Kinds, u \in UIDs, a \in AuditActions,
          b \in Snapshots, aft \in Snapshots : RecordChange(r, k, u, a, b, aft)
    \/ \E r \in RecIds : WriteEntry(r)

SpecAudit == Init /\ [][NextAudit]_vars

\* ============================================================= properties
Done(c) == calls[c].pc = "done"

DoneUpdate(c) == Done(c) /\ calls[c].op = "update"

DoneDelete(c) == Done(c) /\ calls[c].op = "delete"

\* The server resource a call met: what its fetch returned, or, for a call
\* that does not fetch, what the server held when its request arrived.
Observed(c) == IF calls[c].fetched THEN calls[c].existing ELSE calls[c].pre

\* The caller supplied an etag and it is not the etag of the resource met.
Stale(c) ==
    /\ calls[c].etag # NoEtag
    /\ Observed(c).present
    /\ calls[c].etag # Observed(c).etag

Rejected412(c) ==
    /\ calls[c].result.outcome = "raised"
    /\ calls[c].result.status = 412

Succeeded(c) == calls[c].result.outcome = "returned"

\* C1: an update (contact or event) whose caller-supplied etag differs from
\* the etag of the current server resource fails with HTTP 412 and does not
\* mutate the remote resource.
C1_StaleUpdateRejected ==
    \A c \in CallIds :
        (DoneUpdate(c) /\ Stale(c)) => (Rejected412(c) /\ ~calls[c].applied)

\* C2: conflict payload fidelity: an update made with a stale etag ends in a
\* conflict whose payload 'current' is the resource the server holds then,
\* with the server's etag, and neither the client's payload nor its etag.
C2_ConflictPayloadFidelity ==
    \A c \in CallIds :
        (DoneUpdate(c) /\ Stale(c)) =>
            /\ calls[c].result.current = Observed(c)
            /\ calls[c].result.current.etag # calls[c].etag
            /\ calls[c].result.current.payload # calls[c].payload

\* C3: no lost update: of two updates of the same UID made with the same
\* client etag at most one succeeds, and every successful update made with
\* an etag was applied to exactly the server version carrying that etag.
C3_NoLostUpdate ==
    /\ \A c, d \in CallIds :
          ( /\ c # d /\ DoneUpdate(c) /\ DoneUpdate(d)
            /\ calls[c].kind = calls[d].kind /\ calls[c].uid = calls[d].uid
            /\ calls[c].etag # NoEtag /\ calls[c].etag = calls[d].etag )
          => ~(Succeeded(c) /\ Succeeded(d))
    /\ \A c \in CallIds :
          (DoneUpdate(c) /\ Succeeded(c) /\ calls[c].etag # NoEtag)
          => (calls[c].pre.present /\ calls[c].pre.etag = calls[c].etag)

\* The resource changed between a call's fetch and its write although the
\* local comparison of the client etag with the fetched etag passed.
RacedAfterFetch(c) ==
    /\ calls[c].fetched /\ calls[c].existing.present
    /\ calls[c].etag \in {NoEtag, calls[c].existing.etag}
    /\ calls[c].wrote
    /\ calls[c].pre # calls[c].existing

\* C4: when another writer changes the resource between an update's fetch
\* and its write, the update fails with 412 carrying the current server
\* state, an audit entry with action 'conflict' is recorded, and the
\* resource is left as the other writer made it.
C4_RaceRejectedAtWrite ==
    \A c \in CallIds :
        (DoneUpdate(c) /\ RacedAfterFetch(c)) =>
            /\ Rejected412(c)
            /\ calls[c].result.current = calls[c].pre
            /\ ~calls[c].applied
            /\ \E i \in 1..Len(auditLog) :
                  /\ auditLog[i].action = "conflict"
                  /\ auditLog[i].uid = calls[c].uid

\* C5: a successful update returns the resource with the new etag the
\* server returned for the write, which is neither the client's
\* precondition etag nor the etag read before the write.
C5_SuccessCarriesNewEtag ==
    \A c \in CallIds :
        (DoneUpdate(c) /\ Succeeded(c)) =>
            /\ calls[c].result.etag = calls[c].newEtag
            /\ calls[c].result.etag # calls[c].etag
            /\ calls[c].result.etag # Observed(c).etag

\* C6: the audit log holds exactly one entry per finished update/delete
\* call, and as many 'conflict' entries as calls that failed on a
\* precondition mismatch.
C6_OneAuditEntryPerCall ==
    /\ Len(auditLog) = Cardinality({c \in CallIds : Done(c)})
    /\ Cardinality({i \in 1..Len(auditLog) : auditLog[i].action = "conflict"})
          = Cardinality({c \in CallIds : Done(c) /\ Rejected412(c)})

\* C7: an update made with a stale etag leaves an audit entry with action
\* 'conflict' whose 'before' is the current server resource (with the
\* server's etag) and whose 'after' is the rejected client payload.
C7_ConflictAuditEntry ==
    \A c \in CallIds :
        (DoneUpdate(c) /\ Stale(c)) =>
            \E i \in 1..Len(auditLog) :
                /\ auditLog[i].action = "conflict"
                /\ auditLog[i].resource = calls[c].kind
                /\ auditLog[i].uid = calls[c].uid
                /\ auditLog[i].before = Observed(c)
                /\ auditLog[i].after = Resource(calls[c].payload, calls[c].etag)

\* C8: idempotent delete: a delete (contact or event) of a UID that has no
\* resource on the server returns the 'not present' result, never an error,
\* and changes nothing, however often it is repeated.
C8_IdempotentDelete ==
    \A c \in CallIds :
        (DoneDelete(c) /\ ~Observed(c).present) =>
            /\ calls[c].result = Returned("not_present", NoEtag)
            /\ ~calls[c].applied

\* C9: an update of a UID that has no resource on the server fails with
\* NotFound, issues no write and does not create the resource.
C9_UpdateMissingNotFound ==
    \A c \in CallIds :
        (DoneUpdate(c) /\ ~Observed(c).present) =>
            /\ calls[c].result.outcome = "raised"
            /\ calls[c].result.error = "ValueError" \/ calls[c].result.status = 404
            /\ ~calls[c].wrote
            /\ ~calls[c].applied

\* C10: a failure to append the audit entry is swallowed: every
\* record_change returns normally to the update or delete that awaits it,
\* also when the log could not be written.
C10_AuditFailureSwallowed ==
    \A r \in RecIds : rec[r].pc = "done" => rec[r].outcome = "returned"

\* ============================================== duration / timezone codec
\* Text is a sequence of one-character strings.
MaxLen == 4
MaxDays == 2

DigitChar == <<"0", "1", "2", "3", "4", "5", "6", "7", "8", "9">>
Digits == {DigitChar[i] : i \in 1..10}
DigitVal(ch) == (CHOOSE i \in 1..10 : DigitChar[i] = ch) - 1

\* The characters the enumerated input texts are made of.
DurChars == {"-", "P", "T", "D", "H", "W", ".", "1"}

\* str(n) for n >= 0.
RECURSIVE Dec(_)
Dec(n) == IF n < 10 THEN <<DigitChar[n + 1]>>
          ELSE Dec(n \div 10) \o <<DigitChar[(n % 10) + 1]>>

\* re.IGNORECASE on the designator letters.
Upper(ch) ==
    CASE ch = "p" -> "P" [] ch = "t" -> "T" [] ch = "d" -> "D"
      [] ch = "h" -> "H" [] ch = "m" -> "M" [] ch = "s" -> "S"
      [] OTHER -> ch

\* str.strip()
RECURSIVE strip(_)
strip(s) ==
    IF s = <<>> THEN s
    ELSE IF Head(s) = " " THEN strip(Tail(s))
    ELSE IF s[Len(s)] = " " THEN strip(SubSeq(s, 1, Len(s) - 1))
    ELSE s

\* The position after the longest run of digits of s that starts at i (\d+).
RECURSIVE DigitsEnd(_, _)
DigitsEnd(s, i) ==
    IF i <= Len(s) /\ s[i] \in Digits THEN DigitsEnd(s, i + 1) ELSE i

\* int() of the digits s[i..j-1].
RECURSIVE IntOf(_, _, _)
IntOf(s, i, j) ==
    IF j <= i THEN 0 ELSE IntOf(s, i, j - 1) * 10 + DigitVal(s[j - 1])

\* One optional group (?:(\d+)X)? tried at position i.
Component(s, i, designator) ==
    LET j == DigitsEnd(s, i)
    IN IF j > i /\ j <= Len(s) /\ Upper(s[j]) = designator
       THEN [found |-> TRUE, val |-> IntOf(s, i, j), next |-> j + 1]
       ELSE [found |-> FALSE, val |-> 0, next |-> i]

\* An absent timedelta (None), and a timedelta of n seconds.
NoDelta == [ok |-> FALSE, secs |-> 0]
Delta(n) == [ok |-> TRUE, secs |-> n]

\* ISO_DURATION_PATTERN.fullmatch(s): the groups, or no match.
ISO_DURATION_PATTERN(s) ==
    LET i0 == IF Len(s) >= 1 /\ s[1] = "-" THEN 2 ELSE 1
        hasP == i0 <= Len(s) /\ Upper(s[i0]) = "P"
        d == Component(s, i0 + 1, "D")
        hasT == d.next <= Len(s) /\ Upper(s[d.next]) = "T"
        h == Component(s, d.next + 1, "H")
        m == Component(s, h.next, "M")
        sec == Component(s, m.next, "S")
        end == IF hasT THEN sec.next ELSE d.next
    IN IF hasP /\ end = Len(s) + 1
       THEN [matched |-> TRUE, sign |-> (i0 = 2), days |-> d.val,
             hours |-> IF hasT THEN h.val ELSE 0,
             minutes |-> IF hasT THEN m.val ELSE 0,
             seconds |-> IF hasT THEN sec.val ELSE 0]
       ELSE [matched |-> FALSE, sign |-> FALSE, days |-> 0, hours |-> 0,
             minutes |-> 0, seconds |-> 0]

\* iso8601_to_timedelta
iso8601_to_timedelta(duration) ==
    IF duration = <<>> THEN NoDelta
    ELSE LET match == ISO_DURATION_PATTERN(strip(duration))
             delta == match.days * 86400 + match.hours * 3600
                      + match.minutes * 60 + match.seconds
         IN IF ~match.matched THEN NoDelta
            ELSE IF match.sign THEN Delta(-delta) ELSE Delta(delta)

timedelta_to_iso8601_unsigned(total) ==
    LET total_seconds == IF total < 0 THEN -total ELSE total
        days == total_seconds \div 86400
        remainder == total_seconds % 86400
        hours == remainder \div 3600
        minutes == (remainder % 3600) \div 60
        seconds == (remainder % 3600) % 60
        date_part == IF days # 0 THEN Dec(days) \o <<"D">> ELSE <<>>
        parts == (IF hours # 0 THEN Dec(hours) \o <<"H">> ELSE <<>>)
                 \o (IF minutes # 0 THEN Dec(minutes) \o <<"M">> ELSE <<>>)
                 \o (IF seconds # 0 THEN Dec(seconds) \o <<"S">> ELSE <<>>)
        time_parts == IF date_part = <<>> /\ parts = <<>>
                      THEN <<"0", "S">> ELSE parts
        time_part == IF time_parts # <<>> THEN <<"T">> \o time_parts ELSE <<>>
    IN <<"P">> \o date_part \o time_part

\* timedelta_to_iso8601 of a timedelta of total_seconds seconds.
timedelta_to_iso8601(total) ==
    LET sign == IF total < 0 THEN <<"-">> ELSE <<>>
        total_seconds == IF total < 0 THEN -total ELSE total
        days == total_seconds \div 86400
        remainder == total_seconds % 86400
        hours == remainder \div 3600
        minutes == (remainder % 3600) \div 60
        seconds == (remainder % 3600) % 60
        date_part == IF days # 0 THEN Dec(days) \o <<"D">> ELSE <<>>
        parts == (IF hours # 0 THEN Dec(hours) \o <<"H">> ELSE <<>>)
                 \o (IF minutes # 0 THEN Dec(minutes) \o <<"M">> ELSE <<>>)
                 \o (IF seconds # 0 THEN Dec(seconds) \o <<"S">> ELSE <<>>)
        time_parts == IF date_part = <<>> /\ parts = <<>>
                      THEN <<"0", "S">> ELSE parts
        time_part == IF time_parts # <<>> THEN <<"T">> \o time_parts ELSE <<>>
    IN sign \o <<"P">> \o date_part \o time_part

\* Texts given as reminder offsets and as str triggers: "", "-PT15M",
\* "PT60M", "P0D", "P1DT1H", "P", "1W", " pt1h", "x".
SampleTexts ==
    {<<>>, <<"-", "P", "T", "1", "5", "M">>, <<"P", "T", "6", "0", "M">>,
     <<"P", "0", "D">>, <<"P", "1", "D", "T", "1", "H">>, <<"P">>,
     <<"1", "W">>, <<" ", "p", "t", "1", "h">>, <<"x">>}

\* All texts of at most n characters of DurChars.
TextsUpTo(n) == UNION {[1..k -> DurChars] : k \in 0..n}

\* timedelta(days=d, hours=h, minutes=m, seconds=s), of either sign.
Durations ==
    {sg * (d * 86400 + h * 3600 + m * 60 + sc) :
        sg \in {-1, 1}, d \in 0..MaxDays, h \in {0, 1, 23},
        m \in {0, 1, 59}, sc \in {0, 1, 59}}

\* The helper calls whose inputs are a text or a timedelta.
DurationJobs ==
    {[fn |-> "parse", pc |-> "start", text |-> t] :
        t \in TextsUpTo(MaxLen) \cup SampleTexts}
    \cup {[fn |-> "duration_roundtrip", pc |-> "start", delta |-> d] :
            d \in Durations}

\* iso8601_to_timedelta(text)
ParseDuration ==
    /\ job.fn = "parse" /\ job.pc = "start"
    /\ job' = [fn |-> "parse", pc |-> "done", text |-> job.text,
               parsed |-> iso8601_to_timedelta(job.text)]
    /\ UNCHANGED <<server, nextEtag, calls, auditLog, rec, req, circuit, authCache, clock, authCalls, authHist>>

\* timedelta_to_iso8601(delta)
FormatDuration ==
    /\ job.fn = "duration_roundtrip" /\ job.pc = "start"
    /\ job' = [fn |-> "duration_roundtrip", pc |-> "formatted",
               delta |-> job.delta, text |-> timedelta_to_iso8601(job.delta)]
    /\ UNCHANGED <<server, nextEtag, calls, auditLog, rec, req, circuit, authCache, clock, authCalls, authHist>>

\* iso8601_to_timedelta applied to the text just formatted.
ParseFormatted ==
    /\ job.fn = "duration_roundtrip" /\ job.pc = "formatted"
    /\ job' = [fn |-> "duration_roundtrip", pc |-> "done",
               delta |-> job.delta, text |-> job.text,
               parsed |-> iso8601_to_timedelta(job.text)]
    /\ UNCHANGED <<server, nextEtag, calls, auditLog, rec, req, circuit, authCache, clock, authCalls, authHist>>

\* ------------------------------------------------ timestamps and zones
\* Zone identifiers are strings; NoZone is Python's None.
NoZone == "None"
ResolvableZones == {"Europe/Paris", "UTC"}
MalformedZones == {"../x"}
ZoneIds == ResolvableZones \cup MalformedZones \cup {"Mars/Phobos", ""}

\* Wall-clock time counts seconds from an arbitrary origin; Europe/Paris
\* is on winter time before DstStart and on summer time from there on.
DstStart == 86400
Walls == {0, DstStart - 3600, DstStart + 3600}

\* A datetime: naive, aware through a ZoneInfo (key), or aware through a
\* fixed-offset tzinfo (off).  NoDatetime is None.
DT(wall, kind, key, off) ==
    [none |-> FALSE, wall |-> wall, kind |-> kind, key |-> key, off |-> off]
NoDatetime == [none |-> TRUE, wall |-> 0, kind |-> "naive", key |-> "", off |-> 0]
Naive(wall) == DT(wall, "naive", "", 0)

\* tzinfo.utcoffset(value) of an aware datetime.
utcoffset(value) ==
    IF value.kind = "fixed" THEN value.off
    ELSE IF value.key = "UTC" THEN 0
    ELSE IF value.wall >= DstStart THEN 7200 ELSE 3600

\* datetime.timezone.tzname
FixedName(off) ==
    CASE off = 0 -> "UTC"
      [] off = 3600 -> "UTC+01:00"
      [] off = 7200 -> "UTC+02:00"
      [] OTHER -> "UTC+other"

\* A str: absent (None), a text that is not an ISO timestamp (chars), or
\* the ISO form of a wall-clock time with or without a UTC offset.
NoText == [form |-> "none", chars |-> <<>>, wall |-> 0, hasOff |-> FALSE, off |-> 0]
Chars(c) == [form |-> "chars", chars |-> c, wall |-> 0, hasOff |-> FALSE, off |-> 0]
Iso(wall, hasOff, off) ==
    [form |-> "iso", chars |-> <<>>, wall |-> wall, hasOff |-> hasOff, off |-> off]

\* Truth value of an Optional[str].
TruthyText(t) == t.form = "iso" \/ (t.form = "chars" /\ t.chars # <<>>)
TruthyZone(z) == z # NoZone /\ z # ""

\* datetime.isoformat(): the zone key is not written, its offset is.
isoformat(value) ==
    IF value.kind = "naive" THEN Iso(value.wall, FALSE, 0)
    ELSE Iso(value.wall, TRUE, utcoffset(value))

\* datetime.fromisoformat(text): a ValueError on any other text.
fromisoformat(t) ==
    IF t.form = "iso"
    THEN [ok |-> TRUE,
          dt |-> IF t.hasOff THEN DT(t.wall, "fixed", "", t.off)
                 ELSE Naive(t.wall)]
    ELSE [ok |-> FALSE, dt |-> NoDatetime]

\* ZoneInfo(key): the exception it raises, or "none".
ZoneInfo(key) ==
    IF key \in ResolvableZones THEN "none"
    ELSE IF key \in MalformedZones \/ key = "" THEN "ValueError"
    ELSE "ZoneInfoNotFoundError"

\* timezone_from_datetime
timezone_from_datetime(value) ==
    IF value.none \/ value.kind = "naive" THEN NoZone
    ELSE IF value.kind = "zone" THEN value.key
    ELSE FixedName(value.off)

apply_timezone_aware_too(value, timezone) ==
    IF value.none \/ ~TruthyZone(timezone)
    THEN [raised |-> "none", value |-> value]
    ELSE LET err == ZoneInfo(timezone)
         IN IF err = "none"
            THEN [raised |-> "none", value |-> DT(value.wall, "zone", timezone, 0)]
            ELSE [raised |-> "none", value |-> value]

\* apply_timezone: the value returned and the exception that escapes.
apply_timezone(value, timezone) ==
    IF value.none \/ value.kind # "naive" \/ ~TruthyZone(timezone)
    THEN [raised |-> "none", value |-> value]
    ELSE LET err == ZoneInfo(timezone)
         IN IF err = "none"
            THEN [raised |-> "none", value |-> DT(value.wall, "zone", timezone, 0)]
            ELSE IF err \in {"ZoneInfoNotFoundError", "ValueError"}
            THEN [raised |-> "none", value |-> value]
            ELSE [raised |-> err, value |-> NoDatetime]

\* The timestamps the helpers are called with.
Datetimes ==
    {Naive(w) : w \in Walls}
    \cup {DT(w, "zone", z, 0) : w \in Walls, z \in ResolvableZones}
    \cup {DT(w, "fixed", "", o) : w \in Walls, o \in {0, 7200}}

\* Zone arguments: None and every identifier.
ZoneArgs == ZoneIds \cup {NoZone}

TimezoneJobs ==
    {[fn |-> "apply_timezone", pc |-> "start", value |-> v, timezone |-> z] :
        v \in Datetimes \cup {NoDatetime}, z \in ZoneArgs}

\* apply_timezone(value, timezone)
ApplyTimezone ==
    /\ job.fn = "apply_timezone" /\ job.pc = "start"
    /\ job' = [fn |-> "apply_timezone", pc |-> "done", value |-> job.value,
               timezone |-> job.timezone,
               result |-> apply_timezone(job.value, job.timezone)]
    /\ UNCHANGED <<server, nextEtag, calls, auditLog, rec, req, circuit, authCache, clock, authCalls, authHist>>

\* ------------------------------------------------ raw trigger values
\* A raw trigger value by its Python type: None, a datetime, a date, a
\* timedelta, a str, bytes, an iCalendar property whose .dt is a datetime
\* (prop_dt) or a timedelta (prop_td), an object with to_ical() (object)
\* and any other object (plain).  text is the str, the decoded bytes, the
\* to_ical() text or str(value); decodable tells whether bytes are UTF-8.
TV(tag, dt, delta, text, decodable) ==
    [tag |-> tag, dt |-> dt, delta |-> delta, text |-> text,
     decodable |-> decodable]
NoTrigger == TV("none", NoDatetime, 0, NoText, TRUE)
OfDatetime(dt) == TV("datetime", dt, 0, isoformat(dt), TRUE)
OfDate(wall) == TV("date", Naive(wall), 0, Iso(wall, FALSE, 0), TRUE)
OfTimedelta(secs) == TV("timedelta", NoDatetime, secs, Chars(<<"t", "d">>), TRUE)
OfStr(text) == TV("str", NoDatetime, 0, text, TRUE)
OfBytes(text, decodable) == TV("bytes", NoDatetime, 0, text, decodable)
PropDt(dt) == TV("prop_dt", dt, 0, isoformat(dt), TRUE)
PropTd(secs) == TV("prop_td", NoDatetime, secs, Chars(<<"t", "d">>), TRUE)
OfObject(text) == TV("object", NoDatetime, 0, text, TRUE)
OfPlain(text) == TV("plain", NoDatetime, 0, text, TRUE)

\* iso8601_to_timedelta of a str; the ISO form of a timestamp starts with
\* a digit, which the pattern does not match.
DurationOfText(t) ==
    IF t.form = "chars" THEN iso8601_to_timedelta(t.chars) ELSE NoDelta

coerce_to_datetime_no_date(value) ==
    CASE value.tag \in {"datetime", "prop_dt"} -> value.dt
      [] value.tag \in {"str", "object"} ->
            LET parsed == fromisoformat(value.text)
            IN IF parsed.ok THEN parsed.dt ELSE NoDatetime
      [] OTHER -> NoDatetime

\* coerce_to_datetime
coerce_to_datetime(value) ==
    CASE value.tag = "datetime" -> value.dt
      [] value.tag = "date" -> Naive(value.dt.wall)
      [] value.tag = "prop_dt" -> value.dt
      [] value.tag \in {"str", "object"} ->
            LET parsed == fromisoformat(value.text)
            IN IF parsed.ok THEN parsed.dt ELSE NoDatetime
      [] OTHER -> NoDatetime

coerce_to_timedelta_text_only(value) ==
    IF value.tag \in {"str", "object"} THEN DurationOfText(value.text)
    ELSE NoDelta

\* coerce_to_timedelta
coerce_to_timedelta(value) ==
    CASE value.tag \in {"timedelta", "prop_td"} -> Delta(value.delta)
      [] value.tag \in {"str", "object"} -> DurationOfText(value.text)
      [] OTHER -> NoDelta

stringify_trigger_str_only(value) ==
    IF value.tag = "str" THEN [raised |-> "none", text |-> value.text]
    ELSE [raised |-> "none", text |-> NoText]

\* stringify_trigger: the text, and the exception that escapes.
stringify_trigger(value) ==
    CASE value.tag = "none" -> [raised |-> "none", text |-> NoText]
      [] value.tag = "bytes" ->
            IF value.decodable THEN [raised |-> "none", text |-> value.text]
            ELSE [raised |-> "UnicodeDecodeError", text |-> NoText]
      [] OTHER -> [raised |-> "none", text |-> value.text]

\* relation values: START, END, None, and anything else.
NoRelation == "None"

\* The payload dict, or the exception build_reminder_payload raises.
Payload(mode, fire_time, offset, relation, timezone) ==
    [raised |-> "none", mode |-> mode, fire_time |-> fire_time,
     offset |-> offset, relation |-> relation, timezone |-> timezone]
PayloadError(error) ==
    [raised |-> error, mode |-> "none", fire_time |-> NoText,
     offset |-> NoText, relation |-> NoRelation, timezone |-> NoZone]

\* reference + delta on an aware or naive datetime: wall-clock addition.
Plus(value, delta) == [value EXCEPT !.wall = @ + delta]

build_reminder_payload_start_only(trigger_value, related, event_start, event_end, trigger_timezone, event_start_timezone, event_end_timezone) ==
    LET absolute_dt == coerce_to_datetime(trigger_value)
        delta == coerce_to_timedelta(trigger_value)
        raw_value == stringify_trigger(trigger_value)
    IN IF ~absolute_dt.none
       THEN LET timezone == IF TruthyZone(trigger_timezone) THEN trigger_timezone
                            ELSE timezone_from_datetime(absolute_dt)
                applied == apply_timezone(absolute_dt, timezone)
            IN Payload("absolute", isoformat(applied.value), NoText,
                       NoRelation, timezone)
       ELSE IF delta.ok
       THEN LET aware == apply_timezone(event_start, event_start_timezone)
            IN Payload("relative",
                       IF event_start.none THEN NoText
                       ELSE isoformat(Plus(aware.value, delta.secs)),
                       Chars(timedelta_to_iso8601(delta.secs)), "START",
                       event_start_timezone)
       ELSE IF raw_value.raised # "none" THEN PayloadError(raw_value.raised)
       ELSE IF raw_value.text.form = "none"
       THEN PayloadError("Reminder trigger is missing or unreadable")
       ELSE Payload("absolute", raw_value.text, NoText, NoRelation,
                    trigger_timezone)

\* build_reminder_payload
build_reminder_payload(trigger_value, related, event_start, event_end, trigger_timezone, event_start_timezone, event_end_timezone) ==
    LET relation == IF related \in {"START", "END"} THEN related ELSE "START"
        reference == IF relation # "END" THEN event_start ELSE event_end
        absolute_dt == coerce_to_datetime(trigger_value)
        delta == coerce_to_timedelta(trigger_value)
        raw_value == stringify_trigger(trigger_value)
    IN IF ~absolute_dt.none
       THEN LET timezone == IF TruthyZone(trigger_timezone) THEN trigger_timezone
                            ELSE timezone_from_datetime(absolute_dt)
                applied == apply_timezone(absolute_dt, timezone)
            IN IF applied.raised # "none" THEN PayloadError(applied.raised)
               ELSE Payload("absolute", isoformat(applied.value), NoText,
                            NoRelation, timezone)
       ELSE IF delta.ok
       THEN LET timezone == IF relation # "END" THEN event_start_timezone
                            ELSE event_end_timezone
                aware_reference == IF reference.none
                                   THEN [raised |-> "none", value |-> NoDatetime]
                                   ELSE apply_timezone(reference, timezone)
                fire_time == IF aware_reference.value.none THEN NoText
                             ELSE isoformat(Plus(aware_reference.value, delta.secs))
            IN IF aware_reference.raised # "none"
               THEN PayloadError(aware_reference.raised)
               ELSE Payload("relative", fire_time,
                            Chars(timedelta_to_iso8601(delta.secs)), relation,
                            timezone)
       ELSE IF raw_value.raised # "none" THEN PayloadError(raw_value.raised)
       ELSE IF raw_value.text.form = "none"
       THEN PayloadError("Reminder trigger is missing or unreadable")
       ELSE Payload("absolute", raw_value.text, NoText, NoRelation,
                    trigger_timezone)

\* A Reminder of the API model, by the attributes the encoder reads.
Reminder(mode, offset, relation, fire_time, timezone) ==
    [mode |-> mode, offset |-> offset, relation |-> relation,
     fire_time |-> fire_time, timezone |-> timezone]

\* The (value, related, timezone) tuple the encoder returns, or the
\* exception it raises.
Trigger(value, related, timezone) ==
    [raised |-> "none", value |-> value, related |-> related,
     timezone |-> timezone]
TriggerError(error) ==
    [raised |-> error, value |-> NoTrigger, related |-> NoRelation,
     timezone |-> NoZone]

reminder_to_ical_trigger_no_zone(reminder) ==
    IF reminder.mode = "relative"
    THEN IF ~TruthyText(reminder.offset)
         THEN TriggerError("Relative reminders require offset to be set")
         ELSE LET delta == DurationOfText(reminder.offset)
              IN IF ~delta.ok
                 THEN TriggerError("Invalid ISO 8601 duration for reminder offset")
                 ELSE Trigger(OfTimedelta(delta.secs),
                              IF reminder.relation \in {"START", "END"}
                              THEN reminder.relation ELSE "START", NoZone)
    ELSE IF ~TruthyText(reminder.fire_time)
    THEN TriggerError("Absolute reminders require fire_time to be set")
    ELSE LET parsed == fromisoformat(reminder.fire_time)
         IN IF ~parsed.ok THEN TriggerError("Invalid isoformat string")
            ELSE Trigger(OfDatetime(parsed.dt), NoRelation,
                         timezone_from_datetime(parsed.dt))

\* reminder_to_ical_trigger
reminder_to_ical_trigger(reminder) ==
    IF reminder.mode = "relative"
    THEN IF ~TruthyText(reminder.offset)
         THEN TriggerError("Relative reminders require offset to be set")
         ELSE LET delta == DurationOfText(reminder.offset)
              IN IF ~delta.ok
                 THEN TriggerError("Invalid ISO 8601 duration for reminder offset")
                 ELSE Trigger(OfTimedelta(delta.secs),
                              IF reminder.relation \in {"START", "END"}
                              THEN reminder.relation ELSE "START", NoZone)
    ELSE IF ~TruthyText(reminder.fire_time)
    THEN TriggerError("Absolute reminders require fire_time to be set")
    ELSE LET parsed == fromisoformat(reminder.fire_time)
             timezone == IF TruthyZone(reminder.timezone) THEN reminder.timezone
                         ELSE timezone_from_datetime(parsed.dt)
             applied == apply_timezone(parsed.dt, timezone)
             trigger_dt == applied.value
         IN IF ~parsed.ok THEN TriggerError("Invalid isoformat string")
            ELSE IF applied.raised # "none" THEN TriggerError(applied.raised)
            ELSE Trigger(OfDatetime(trigger_dt), NoRelation,
                         IF trigger_dt.kind # "naive" /\ timezone = NoZone
                         THEN timezone_from_datetime(trigger_dt)
                         ELSE timezone)

\* ------------------------------------------------ encoder / decoder calls
\* ISO timestamps given as str: naive, with a +02:00 offset, with "+00:00".
SampleIso ==
    {Iso(0, FALSE, 0), Iso(DstStart + 3600, FALSE, 0), Iso(0, TRUE, 7200),
     Iso(DstStart + 3600, TRUE, 0)}

TriggerValues ==
    {NoTrigger}
    \cup {OfDatetime(d) : d \in {x \in Datetimes : x.wall # DstStart - 3600}}
    \cup {OfDate(0), OfDate(DstStart)}
    \cup {OfTimedelta(d) : d \in {-600, 0, 86400}}
    \cup {OfStr(Chars(c)) : c \in SampleTexts}
    \cup {OfStr(t) : t \in SampleIso}
    \cup {OfBytes(Chars(<<"x">>), TRUE), OfBytes(Chars(<<"P", "1", "D">>), TRUE),
          OfBytes(NoText, FALSE)}
    \cup {PropDt(Naive(0)), PropDt(DT(DstStart + 3600, "zone", "Europe/Paris", 0)),
          PropTd(-600)}
    \cup {OfObject(Chars(<<"P", "T", "1", "H">>)), OfObject(Iso(0, FALSE, 0)),
          OfObject(Chars(<<"x">>)), OfPlain(Chars(<<"0">>))}

Relations == {"START", "END", NoRelation, "end"}
EventStarts == {NoDatetime, Naive(DstStart - 3600)}
EventEnds == {NoDatetime, Naive(DstStart + 3600), DT(0, "zone", "UTC", 0)}
TriggerZones == {NoZone, "", "Europe/Paris", "Mars/Phobos"}
StartZones == {NoZone, "Europe/Paris"}
EndZones == {"UTC", "../x"}

DecodeJobs ==
    {[fn |-> "decode", pc |-> "start", trigger |-> t, related |-> r,
      event_start |-> es, event_end |-> ee, trigger_timezone |-> tz,
      event_start_timezone |-> sz, event_end_timezone |-> ez] :
        t \in TriggerValues, r \in Relations, es \in EventStarts,
        ee \in EventEnds, tz \in TriggerZones, sz \in StartZones,
        ez \in EndZones}

\* Relative reminders vary in offset and relation, absolute ones in
\* fire_time and timezone; the fields of the other mode are set or not.
Reminders ==
    {Reminder("relative", o, r, f, z) :
        o \in {NoText} \cup {Chars(c) : c \in SampleTexts}, r \in Relations,
        f \in {NoText, Iso(0, FALSE, 0)}, z \in {NoZone, "Europe/Paris"}}
    \cup {Reminder("absolute", o, r, f, z) :
        o \in {NoText, Chars(<<"P", "1", "D">>)}, r \in {NoRelation, "START"},
        f \in {NoText, Chars(<<>>), Chars(<<"x">>)} \cup SampleIso,
        z \in ZoneArgs}

RoundTripJobs ==
    {[fn |-> "roundtrip", pc |-> "start", reminder |-> rm, event_start |-> es,
      event_end |-> ee, event_start_timezone |-> sz] :
        rm \in Reminders, es \in {NoDatetime, Naive(0)},
        ee \in {NoDatetime, Naive(DstStart + 3600)}, sz \in StartZones}

\* build_reminder_payload on a raw trigger
BuildReminderPayload ==
    /\ job.fn = "decode" /\ job.pc = "start"
    /\ job' = [job EXCEPT !.pc = "done"] @@
              [payload |-> build_reminder_payload(
                    job.trigger, job.related, job.event_start, job.event_end,
                    job.trigger_timezone, job.event_start_timezone,
                    job.event_end_timezone)]
    /\ UNCHANGED <<server, nextEtag, calls, auditLog, rec, req, circuit, authCache, clock, authCalls, authHist>>

\* reminder_to_ical_trigger on a Reminder
ReminderToIcalTrigger ==
    /\ job.fn = "roundtrip" /\ job.pc = "start"
    /\ LET encoded == reminder_to_ical_trigger(job.reminder)
       IN job' = [job EXCEPT !.pc = IF encoded.raised = "none" THEN "encoded"
                                    ELSE "failed"] @@
                 [encoded |-> encoded]
    /\ UNCHANGED <<server, nextEtag, calls, auditLog, rec, req, circuit, authCache, clock, authCalls, authHist>>

\* build_reminder_payload on the encoder's output
DecodeEncoded ==
    /\ job.fn = "roundtrip" /\ job.pc = "encoded"
    /\ job' = [job EXCEPT !.pc = "done"] @@
              [payload |-> build_reminder_payload(
                    job.encoded.value, job.encoded.related, job.event_start,
                    job.event_end, job.encoded.timezone,
                    job.event_start_timezone, NoZone)]
    /\ UNCHANGED <<server, nextEtag, calls, auditLog, rec, req, circuit, authCache, clock, authCalls, authHist>>

\* The state before a helper is called: no coordinator call, no audit
\* record, one helper call with its arguments.
InitCodec ==
    /\ server = [k \in Kinds |-> [u \in UIDs |-> NoResource]]
    /\ nextEtag = 2
    /\ calls = [c \in CallIds |-> IdleCall]
    /\ auditLog = <<>>
    /\ rec = [r \in RecIds |-> [pc |-> "idle", line |-> <<>>, outcome |-> "none"]]
    /\ job \in DurationJobs \cup TimezoneJobs \cup DecodeJobs \cup RoundTripJobs
    /\ NoRequest
    /\ NoAuth

NextCodec ==
    \/ ParseDuration
    \/ FormatDuration
    \/ ParseFormatted
    \/ ApplyTimezone
    \/ BuildReminderPayload
    \/ ReminderToIcalTrigger
    \/ DecodeEncoded

SpecCodec == InitCodec /\ [][NextCodec]_vars

\* ============================================== codec properties
JobDone(fn) == job.fn = fn /\ job.pc = "done"

\* C11: formatting a duration of whole days, hours, minutes and seconds,
\* of either sign or zero, and parsing the text back gives the duration.
C11_DurationRoundTrip ==
    JobDone("duration_roundtrip") => job.parsed = Delta(job.delta)

\* A negative duration with every component set has gone the round trip.
C11_Witness ==
    /\ JobDone("duration_roundtrip")
    /\ job.delta = -(86400 + 3600 + 60 + 1)
    /\ job.parsed.ok

\* One component of the grammar: nothing, or digits and the designator.
IsComponent(part, designator) ==
    \/ part = <<>>
    \/ /\ Len(part) >= 2
       /\ part[Len(part)] = designator
       /\ \A i \in 1..(Len(part) - 1) : part[i] \in Digits

\* The grammar [-]P[nD][T[nH][nM][nS]] with at least one component, by
\* the places where the text splits into its parts.
InGrammar(text) ==
    LET n == Len(text)
        s0 == IF n >= 1 /\ text[1] = "-" THEN 1 ELSE 0
    IN /\ n >= s0 + 1
       /\ text[s0 + 1] = "P"
       /\ \E a \in (s0 + 1)..n :
            LET datePart == SubSeq(text, s0 + 2, a)
            IN /\ IsComponent(datePart, "D")
               /\ \/ a = n /\ datePart # <<>>
                  \/ /\ a < n
                     /\ text[a + 1] = "T"
                     /\ datePart # <<>> \/ a + 1 < n
                     /\ \E b \in (a + 1)..n, c \in (a + 1)..n :
                          /\ b <= c
                          /\ IsComponent(SubSeq(text, a + 2, b), "H")
                          /\ IsComponent(SubSeq(text, b + 1, c), "M")
                          /\ IsComponent(SubSeq(text, c + 1, n), "S")

\* C14: iso8601_to_timedelta accepts exactly the texts of the grammar that
\* carry at least one component, and fails for every other text.
C14_AcceptsExactlyGrammar ==
    JobDone("parse") => (job.parsed.ok <=> InGrammar(job.text))

\* C20: apply_timezone never raises; it returns its input unchanged when
\* the timestamp carries a zone, or the zone identifier is absent or cannot
\* be resolved; a naive timestamp with a resolvable identifier gets that
\* zone attached and keeps its wall-clock time.
C20_ApplyTimezoneBestEffort ==
    JobDone("apply_timezone") =>
        /\ job.result.raised = "none"
        /\ IF /\ ~job.value.none
              /\ job.value.kind = "naive"
              /\ job.timezone \in ResolvableZones
           THEN job.result.value = DT(job.value.wall, "zone", job.timezone, 0)
           ELSE job.result.value = job.value

\* An aware timestamp was given another, resolvable zone and came back
\* as it was.
C20_Witness ==
    /\ JobDone("apply_timezone")
    /\ job.value = DT(0, "fixed", "", 7200)
    /\ job.timezone = "Europe/Paris"
    /\ job.result.value = job.value

\* C12 as stated: a relative reminder with a valid offset and relation
\* START or END decodes, after encoding, to mode relative with the same
\* offset text and the same relation.
C12_SameOffsetText ==
    ( /\ JobDone("roundtrip")
      /\ job.reminder.mode = "relative"
      /\ InGrammar(job.reminder.offset.chars)
      /\ job.reminder.relation \in {"START", "END"} )
    => /\ job.payload.mode = "relative"
       /\ job.payload.offset = job.reminder.offset
       /\ job.payload.relation = job.reminder.relation

\* C12 amended: the decoded reminder has mode relative, the same relation,
\* and the offset in normalized form: a text of the same duration, and the
\* same text when the input offset was already normalized.
C12_SameDurationNormalized ==
    ( /\ JobDone("roundtrip")
      /\ job.reminder.mode = "relative"
      /\ InGrammar(job.reminder.offset.chars)
      /\ job.reminder.relation \in {"START", "END"} )
    => LET given == iso8601_to_timedelta(job.reminder.offset.chars)
       IN /\ job.payload.raised = "none"
          /\ job.payload.mode = "relative"
          /\ job.payload.relation = job.reminder.relation
          /\ job.payload.offset.form = "chars"
          /\ iso8601_to_timedelta(job.payload.offset.chars) = given
          /\ job.payload.offset.chars = timedelta_to_iso8601(given.secs)
          /\ (job.reminder.offset.chars = timedelta_to_iso8601(given.secs)
                => job.payload.offset = job.reminder.offset)

\* The offset PT60M with relation END came back as PT1H with relation END.
C12_Witness ==
    /\ JobDone("roundtrip")
    /\ job.reminder.mode = "relative"
    /\ job.reminder.offset = Chars(<<"P", "T", "6", "0", "M">>)
    /\ job.reminder.relation = "END"
    /\ job.payload.offset = Chars(<<"P", "T", "1", "H">>)
    /\ job.payload.relation = "END"

\* The instant a fire_time text denotes under a zone identifier: its
\* wall-clock time less its own UTC offset, else less the offset of the
\* zone when that resolves; floating when neither gives an offset.
Instant(text, zone) ==
    IF text.hasOff THEN [floating |-> FALSE, utc |-> text.wall - text.off]
    ELSE IF zone \in ResolvableZones
    THEN [floating |-> FALSE,
          utc |-> text.wall - utcoffset(DT(text.wall, "zone", zone, 0))]
    ELSE [floating |-> TRUE, utc |-> text.wall]

\* C13: an absolute reminder with a fire_time and a timezone decodes,
\* after encoding, to mode absolute with a fire_time of the same instant
\* and the same timezone identifier.
C13_AbsoluteRoundTrip ==
    ( /\ JobDone("roundtrip")
      /\ job.reminder.mode = "absolute"
      /\ TruthyZone(job.reminder.timezone) )
    => /\ job.payload.raised = "none"
       /\ job.payload.mode = "absolute"
       /\ job.payload.timezone = job.reminder.timezone
       /\ job.payload.fire_time.form = "iso"
       /\ Instant(job.payload.fire_time, job.payload.timezone)
            = Instant(job.reminder.fire_time, job.reminder.timezone)

\* A naive summer fire_time in Europe/Paris came back with +02:00 and the
\* zone Europe/Paris.
C13_Witness ==
    /\ JobDone("roundtrip")
    /\ job.reminder.mode = "absolute"
    /\ job.reminder.fire_time = Iso(DstStart + 3600, FALSE, 0)
    /\ job.reminder.timezone = "Europe/Paris"
    /\ job.payload.fire_time = Iso(DstStart + 3600, TRUE, 7200)
    /\ job.payload.timezone = "Europe/Paris"

\* A raw trigger that is a timestamp: a datetime, a date, a property
\* holding a datetime, or a text in ISO form.
ParsesAsTimestamp(value) ==
    \/ value.tag \in {"datetime", "date", "prop_dt"}
    \/ value.tag \in {"str", "object"} /\ value.text.form = "iso"

\* Its wall-clock time, whether it carries a UTC offset, and the zone
\* identifier it carries.
TimestampWall(value) ==
    IF value.tag \in {"str", "object"} THEN value.text.wall ELSE value.dt.wall
TimestampAware(value) ==
    IF value.tag \in {"str", "object"} THEN value.text.hasOff
    ELSE value.tag # "date" /\ value.dt.kind # "naive"
TimestampOffset(value) ==
    IF value.tag \in {"str", "object"} THEN value.text.off
    ELSE utcoffset(value.dt)
CarriedZone(value) ==
    IF ~TimestampAware(value) THEN NoZone
    ELSE IF value.tag \in {"str", "object"} THEN FixedName(value.text.off)
    ELSE IF value.dt.kind = "zone" THEN value.dt.key
    ELSE FixedName(value.dt.off)

\* C15: whenever the raw trigger is a timestamp the payload has mode
\* absolute, no offset and no relation, the zone resolved as the trigger's
\* explicit zone else the zone the timestamp carries, and fire_time is the
\* timestamp with that zone applied, whatever RELATED, start and end are.
C15_TimestampFirst ==
    (JobDone("decode") /\ ParsesAsTimestamp(job.trigger)) =>
        LET resolved == IF TruthyZone(job.trigger_timezone)
                        THEN job.trigger_timezone
                        ELSE CarriedZone(job.trigger)
            wall == TimestampWall(job.trigger)
        IN /\ job.payload.raised = "none"
           /\ job.payload.mode = "absolute"
           /\ job.payload.offset = NoText
           /\ job.payload.relation = NoRelation
           /\ job.payload.timezone = resolved
           /\ job.payload.fire_time =
                IF TimestampAware(job.trigger)
                THEN Iso(wall, TRUE, TimestampOffset(job.trigger))
                ELSE IF resolved \in ResolvableZones
                THEN Iso(wall, TRUE, utcoffset(DT(wall, "zone", resolved, 0)))
                ELSE Iso(wall, FALSE, 0)

\* A date trigger with explicit zone Europe/Paris and RELATED=END, with an
\* event end present, decoded as absolute at midnight +01:00.
C15_Witness ==
    /\ JobDone("decode")
    /\ job.trigger = OfDate(0)
    /\ job.related = "END"
    /\ ~job.event_end.none
    /\ job.trigger_timezone = "Europe/Paris"
    /\ job.payload.mode = "absolute"
    /\ job.payload.fire_time = Iso(0, TRUE, 3600)

\* A raw trigger that is a duration: a timedelta, a property holding one,
\* or a text iso8601_to_timedelta accepts; and the seconds it stands for.
ParsesAsDuration(value) ==
    \/ value.tag \in {"timedelta", "prop_td"}
    \/ value.tag \in {"str", "object"} /\ DurationOfText(value.text).ok
DurationSeconds(value) ==
    IF value.tag \in {"str", "object"} THEN DurationOfText(value.text).secs
    ELSE value.delta

\* C16: a trigger that is a duration and no timestamp decodes to mode
\* relative, relation START unless RELATED is END, the timezone of the
\* event start (START) or end (END), and fire_time = that reference with
\* the zone applied plus the offset, null exactly when the reference is.
C16_RelativeDecode ==
    ( /\ JobDone("decode")
      /\ ParsesAsDuration(job.trigger)
      /\ ~ParsesAsTimestamp(job.trigger) )
    => LET relation == IF job.related = "END" THEN "END" ELSE "START"
           reference == IF relation = "END" THEN job.event_end
                        ELSE job.event_start
           zone == IF relation = "END" THEN job.event_end_timezone
                   ELSE job.event_start_timezone
           wall == reference.wall + DurationSeconds(job.trigger)
           zoned == reference.kind = "naive" /\ zone \in ResolvableZones
       IN /\ job.payload.raised = "none"
          /\ job.payload.mode = "relative"
          /\ job.payload.relation = relation
          /\ job.payload.timezone = zone
          /\ (job.payload.fire_time = NoText) <=> reference.none
          /\ ~reference.none =>
                job.payload.fire_time =
                    IF zoned
                    THEN Iso(wall, TRUE, utcoffset(DT(wall, "zone", zone, 0)))
                    ELSE IF reference.kind = "naive" THEN Iso(wall, FALSE, 0)
                    ELSE Iso(wall, TRUE, utcoffset(Plus(reference, DurationSeconds(job.trigger))))

\* Ten minutes before a start of 23:00 in Europe/Paris: 22:50 +01:00.
C16_Witness ==
    /\ JobDone("decode")
    /\ job.trigger = OfTimedelta(-600)
    /\ job.related = "START"
    /\ job.event_start = Naive(DstStart - 3600)
    /\ job.event_start_timezone = "Europe/Paris"
    /\ job.payload.mode = "relative"
    /\ job.payload.fire_time = Iso(DstStart - 3600 - 600, TRUE, 3600)

\* A raw trigger with no string form: None, or bytes that are not UTF-8.
Unreadable(value) ==
    value.tag = "none" \/ (value.tag = "bytes" /\ ~value.decodable)

\* C17: a readable raw trigger that is neither a timestamp nor a duration
\* is not rejected: the payload has mode absolute, fire_time the value's
\* string form, no offset, no relation, and the trigger's zone metadata.
C17_LenientFallback ==
    ( /\ JobDone("decode")
      /\ ~Unreadable(job.trigger)
      /\ ~ParsesAsTimestamp(job.trigger)
      /\ ~ParsesAsDuration(job.trigger) )
    => /\ job.payload.raised = "none"
       /\ job.payload.mode = "absolute"
       /\ job.payload.fire_time = job.trigger.text
       /\ job.payload.offset = NoText
       /\ job.payload.relation = NoRelation
       /\ job.payload.timezone = job.trigger_timezone

\* The bytes "x" with zone metadata Mars/Phobos were kept as the text "x".
C17_Witness ==
    /\ JobDone("decode")
    /\ job.trigger = OfBytes(Chars(<<"x">>), TRUE)
    /\ job.trigger_timezone = "Mars/Phobos"
    /\ job.payload.mode = "absolute"
    /\ job.payload.fire_time = Chars(<<"x">>)
    /\ job.payload.timezone = "Mars/Phobos"

\* C18: the decoder fails, with "Reminder trigger is missing or
\* unreadable", when the raw trigger is absent or unreadable, and for no
\* other input.
C18_OnlyUnreadableFails ==
    JobDone("decode") =>
        job.payload.raised =
            IF Unreadable(job.trigger)
            THEN "Reminder trigger is missing or unreadable"
            ELSE "none"

\* C19: the encoder fails exactly when the authoritative field is missing
\* or unparseable: with "Relative reminders require offset" for a relative
\* reminder whose offset is absent or no valid duration, with "Absolute
\* reminders require fire_time" for an absolute one whose fire_time is
\* absent or no timestamp.
C19_EncoderFailsExactly ==
    (job.fn = "roundtrip" /\ job.pc # "start") =>
        job.encoded.raised =
            IF job.reminder.mode = "relative"
            THEN IF InGrammar(job.reminder.offset.chars) THEN "none"
                 ELSE "Relative reminders require offset to be set"
            ELSE IF job.reminder.fire_time.form = "iso" THEN "none"
                 ELSE "Absolute reminders require fire_time to be set"

\* ============================================== coordinator properties
\* C21: every update or delete request a call sends carries the etag of
\* that call's own fetch as If-Match; none is sent without a precondition.
C21_WritesCarryFetchedEtag ==
    \A c \in CallIds :
        calls[c].wrote =>
            /\ calls[c].fetched
            /\ calls[c].ifMatch # NoEtag
            /\ calls[c].ifMatch = calls[c].existing.etag

\* C22: a call sends its write or delete request only after its own fetch
\* has returned (FETCHING, COMPARING, then WRITING or REJECTED, then DONE).
C22_FetchBeforeWrite ==
    \A c \in CallIds : calls[c].wrote => calls[c].fetched

\* ------------------------------------------------ calls that must end
\* The DAV request of a call ends in a connectivity error: _request has
\* used up its attempts (event calls), or session.put / session.delete
\* raised aiohttp.ClientError (contact calls).  The call raises
\* HTTPException(500); the request is taken not to have reached the server.
ConnectionError(c) ==
    /\ calls[c].pc \in {"fetching", "writing"}
    /\ calls' = [calls EXCEPT ![c].pc = "done",
                              ![c].result = Raised("HTTPException", 500)]
    /\ UNCHANGED <<server, nextEtag, auditLog, rec, job, req, circuit, authCache, clock, authCalls, authHist>>

\* The step of call c that follows when its awaited DAV call returns
\* normally; at most one of these is enabled at a time.
CallStep(c) ==
    \/ UpdateEventFetch(c)
    \/ UpdateEventWrite(c)
    \/ DeleteEventFetch(c)
    \/ DeleteEventWrite(c)
    \/ UpdateContact(c)
    \/ DeleteContact(c)

\* Calls as in Next, begun with no etag or with the first one, and the
\* connectivity error.
NextLive ==
    \/ \E c \in CallIds, op \in {"update", "delete"}, k \in Kinds,
          u \in UIDs, etag \in {NoEtag, 1} : StartCall(c, op, k, u, etag)
    \/ \E c \in CallIds : CallStep(c)
    \/ \E c \in CallIds : ConnectionError(c)

\* The event loop resumes a coroutine whose awaited DAV call has returned;
\* no connectivity error is ever bound to happen.
Fairness == \A c \in CallIds : WF_vars(CallStep(c))

SpecLive == Init /\ [][NextLive]_vars /\ Fairness

\* C23: provided each DAV call returns, every call that began fetching or
\* writing reaches DONE, with a result or a definite error.
C23_CallsTerminate ==
    \A c \in CallIds :
        (calls[c].pc \in {"fetching", "writing"}) ~> (calls[c].pc = "done")

\* One call ended after its fetch and its write, another in a
\* connectivity error.
C23_Witness ==
    \E c, d \in CallIds :
        /\ calls[c].pc = "done" /\ calls[c].fetched /\ calls[c].wrote
        /\ calls[d].pc = "done" /\ calls[d].result = Raised("HTTPException", 500)
        /\ ~calls[d].wrote

\* C29: when an event that existed at delete_event's fetch is gone by the
\* time the DELETE reaches the server (404), delete_event returns False and
\* raises nothing.
C29_ConcurrentDeleteTolerated ==
    \A c \in CallIds :
        (/\ calls[c].op = "delete" /\ calls[c].kind = "event"
         /\ calls[c].pc = "done" /\ calls[c].wrote
         /\ calls[c].existing.present /\ ~calls[c].pre.present)
        => calls[c].result = Returned("not_present", NoEtag)

\* A delete_event call found the event, lost the race to another delete and
\* returned False.
C29_Witness ==
    \E c, d \in CallIds :
        /\ c # d
        /\ calls[c].op = "delete" /\ calls[c].kind = "event"
        /\ calls[c].pc = "done" /\ calls[c].wrote
        /\ calls[c].existing.present /\ ~calls[c].pre.present
        /\ calls[c].result = Returned("not_present", NoEtag)
        /\ calls[d].op = "delete" /\ calls[d].uid = calls[c].uid
        /\ calls[d].kind = "event" /\ calls[d].applied

\* The recorder fed with the entries of one event: each action, before
\* absent and after present.
NextAppend ==
    \/ \E r \in RecIds, a \in AuditActions :
          RecordChange(r, "event", "u1", a, NoResource, Resource(1, 1))
    \/ \E r \in RecIds : WriteEntry(r)

SpecAppend == Init /\ [][NextAppend]_vars

\* C25: the audit log only grows at its end: across every step the log
\* before is a prefix of the log after, and a record_change call that
\* returns has added exactly one entry, its own, as the last one; this
\* holds with several record_change calls in flight.
C25_LogBeforeIsPrefix ==
    /\ Len(auditLog) <= Len(auditLog')
    /\ SubSeq(auditLog', 1, Len(auditLog)) = auditLog

C25_ReturnAddsOneEntry ==
    \A r \in RecIds :
        (rec[r].outcome # "returned" /\ rec'[r].outcome = "returned")
        => /\ Len(auditLog') = Len(auditLog) + 1
           /\ auditLog'[Len(auditLog')] = rec[r].line[1]

C25_AppendOnly == [][C25_LogBeforeIsPrefix /\ C25_ReturnAddsOneEntry]_vars

\* Two record_change calls have returned and the log holds their two
\* different entries.
C25_Witness ==
    \E r, q \in RecIds :
        /\ r # q
        /\ rec[r].outcome = "returned" /\ rec[q].outcome = "returned"
        /\ Len(auditLog) >= 2
        /\ auditLog[1] # auditLog[2]

\* ------------------------------------------------- BaseDavClient._request
_DAV_MAX_RETRIES == 2
Methods == {"GET", "PUT", "DELETE"}
Statuses == {200, 201, 204, 404, 412, 500, 503}
\* An attempt that ends in aiohttp.ClientError has no status.
ClientError == 0

request_returns_unless_5xx(status) ==
    IF status >= 500
    THEN [pc |-> "sleeping", status |-> 0, raised |-> 0]
    ELSE [pc |-> "returned", status |-> status, raised |-> 0]

\* The response branch of an attempt: `return response.status, text,
\* response.headers`, whatever the status.
request_returns(status) ==
    [pc |-> "returned", status |-> status, raised |-> 0]

\* The except branch of an attempt: after the last attempt the loop is left
\* and HTTPException(500) raised, otherwise the back-off sleep starts.
request_on_client_error(attempt) ==
    IF attempt > _DAV_MAX_RETRIES
    THEN [pc |-> "raised", status |-> 0, raised |-> 500]
    ELSE [pc |-> "sleeping", status |-> 0, raised |-> 0]

\* _request is entered: attempt = 0.  sent lists what each attempt of this
\* call ended in, in order.
RequestStart(method, ifMatch) ==
    /\ req = IdleReq
    /\ req' = [pc |-> "loop", method |-> method, ifMatch |-> ifMatch,
               attempt |-> 0, status |-> 0, raised |-> 0, sent |-> <<>>]
    /\ UNCHANGED <<server, nextEtag, calls, auditLog, rec, job, circuit, authCache, clock, authCalls, authHist>>

RequestAttempt_resend_conflict ==
    /\ req # IdleReq /\ req.pc = "loop"
    /\ IF req.attempt <= _DAV_MAX_RETRIES
       THEN \E outcome \in Statuses \cup {ClientError} :
               LET attempt == req.attempt + 1
                   nxt == IF outcome = ClientError \/ (outcome = 412 /\ attempt <= _DAV_MAX_RETRIES)
                          THEN request_on_client_error(attempt)
                          ELSE request_returns(outcome)
               IN req' = [req EXCEPT !.attempt = attempt,
                                     !.sent = Append(req.sent, outcome),
                                     !.pc = nxt.pc, !.status = nxt.status,
                                     !.raised = nxt.raised]
       ELSE req' = [req EXCEPT !.pc = "raised", !.raised = 500]
    /\ UNCHANGED <<server, nextEtag, calls, auditLog, rec, job, circuit, authCache, clock, authCalls, authHist>>

\* One turn of the while loop: the test, attempt += 1, the request, and
\* either the response (with its body read) or aiohttp.ClientError.
RequestAttempt ==
    /\ req # IdleReq /\ req.pc = "loop"
    /\ IF req.attempt <= _DAV_MAX_RETRIES
       THEN \E outcome \in Statuses \cup {ClientError} :
               LET attempt == req.attempt + 1
                   nxt == IF outcome = ClientError
                          THEN request_on_client_error(attempt)
                          ELSE request_returns(outcome)
               IN req' = [req EXCEPT !.attempt = attempt,
                                     !.sent = Append(req.sent, outcome),
                                     !.pc = nxt.pc, !.status = nxt.status,
                                     !.raised = nxt.raised]
       ELSE req' = [req EXCEPT !.pc = "raised", !.raised = 500]
    /\ UNCHANGED <<server, nextEtag, calls, auditLog, rec, job, circuit, authCache, clock, authCalls, authHist>>

\* asyncio.sleep(_DAV_BACKOFF * attempt) returns and the loop goes round.
RequestSleep ==
    /\ req # IdleReq /\ req.pc = "sleeping"
    /\ req' = [req EXCEPT !.pc = "loop"]
    /\ UNCHANGED <<server, nextEtag, calls, auditLog, rec, job, circuit, authCache, clock, authCalls, authHist>>

NextRequest ==
    \/ \E m \in Methods, e \in {NoEtag, 1} : RequestStart(m, e)
    \/ RequestAttempt
    \/ RequestSleep

\* An attempt ends (aiohttp's timeouts bound it) and a sleep ends.
SpecRequest ==
    Init /\ [][NextRequest]_vars /\ WF_vars(RequestAttempt) /\ WF_vars(RequestSleep)

Answers(sent) == {i \in 1..Len(sent) : sent[i] # ClientError}

\* C28: _request ends after at most _DAV_MAX_RETRIES + 1 attempts; every
\* attempt but the last ended in a transport error; the first HTTP response
\* is returned with its status, 412 and 5xx included; HTTPException(500) is
\* raised exactly when all _DAV_MAX_RETRIES + 1 attempts ended in a
\* transport error.
C28_AttemptsBounded ==
    req # IdleReq =>
        /\ Len(req.sent) = req.attempt
        /\ req.attempt <= _DAV_MAX_RETRIES + 1
        /\ \A i \in 1..(Len(req.sent) - 1) : req.sent[i] = ClientError
        /\ (Answers(req.sent) # {}) <=>
               (req.pc = "returned" /\ req.status = req.sent[Len(req.sent)])
        /\ (Answers(req.sent) = {} /\ Len(req.sent) = _DAV_MAX_RETRIES + 1) <=>
               (req.pc = "raised" /\ req.raised = 500)

C28_Terminates ==
    (req # IdleReq) ~> (req # IdleReq /\ req.pc \in {"returned", "raised"})

C28_RequestTerminates == []C28_AttemptsBounded /\ C28_Terminates

\* A 503 answer came back on the last attempt, after transport errors on
\* all the others, and was returned.
C28_Witness ==
    /\ req # IdleReq /\ req.pc = "returned" /\ req.status = 503
    /\ req.attempt = _DAV_MAX_RETRIES + 1

\* C24: a write request is answered by the server at most once; a 412
\* answer is handed back to the caller and nothing is sent after it.
C24_ConflictNotRetried ==
    (req # IdleReq /\ req.method \in {"PUT", "DELETE"}) =>
        /\ Cardinality(Answers(req.sent)) <= 1
        /\ \A i \in 1..Len(req.sent) :
               req.sent[i] = 412 =>
                   /\ i = Len(req.sent)
                   /\ req.pc = "returned" /\ req.status = 412

\* A PUT carrying If-Match was retried after a transport error, answered
\* 412, and the 412 came back to the caller.
C24_Witness ==
    /\ req # IdleReq /\ req.method = "PUT" /\ req.ifMatch # NoEtag
    /\ req.sent = <<ClientError, 412>>
    /\ req.pc = "returned" /\ req.status = 412

\* ------------------------------------------ sec.py: authentication, breaker
AUTH_MAX_RETRIES == 3
AUTH_CIRCUIT_THRESHOLD == 5
AUTH_CIRCUIT_RESET == 30
MaxClock == 31

\* HTTPBasicCredentials: two passwords for one user name.
Credentials ==
    {[username |-> "u", password |-> "p"], [username |-> "u", password |-> "q"]}

cache_key(credentials) == credentials.username \o ":" \o credentials.password

\* response.json()["ocs"]["data"] of a 200 answer: the user the identity
\* provider knows under these credentials.
user_info(credentials) == [id |-> credentials.username]
NoUser == [id |-> ""]

\* An attempt that ends in httpx.RequestError has no status.
RequestError == 0
AuthOutcomes == {200, 401, 403, 500, RequestError}

\* auth_cache as its items; within MaxClock no entry reaches its ttl of
\* 300 s and the credentials stay below maxsize.
cache_contains(cache, key) == \E e \in cache : e.key = key
cache_get(cache, key) == (CHOOSE e \in cache : e.key = key).user
cache_set(cache, key, user) ==
    {e \in cache : e.key # key} \cup {[key |-> key, user |-> user]}

_ensure_circuit_allows_request_lenient(state, now) ==
    IF state.open_until # 0 /\ now >= state.open_until
    THEN [raised |-> 0, state |-> [failures |-> 0, open_until |-> 0]]
    ELSE [raised |-> 0, state |-> state]

\* _ensure_circuit_allows_request: 503 while the breaker is open; an open
\* period that is over is cleared together with the failure count.
_ensure_circuit_allows_request(state, now) ==
    IF state.open_until # 0 /\ now < state.open_until
    THEN [raised |-> 503, state |-> state]
    ELSE IF state.open_until # 0 /\ now >= state.open_until
    THEN [raised |-> 0, state |-> [failures |-> 0, open_until |-> 0]]
    ELSE [raised |-> 0, state |-> state]

_record_success(state) == [failures |-> 0, open_until |-> 0]

_record_failure_above(state, now) ==
    LET failures == state.failures + 1
    IN IF failures > AUTH_CIRCUIT_THRESHOLD
       THEN [failures |-> 0, open_until |-> now + AUTH_CIRCUIT_RESET]
       ELSE [failures |-> failures, open_until |-> state.open_until]

_record_failure(state, now) ==
    LET failures == state.failures + 1
    IN IF failures >= AUTH_CIRCUIT_THRESHOLD
       THEN [failures |-> 0, open_until |-> now + AUTH_CIRCUIT_RESET]
       ELSE [failures |-> failures, open_until |-> state.open_until]

AuthReturned(user) == [kind |-> "returned", status |-> 0, user |-> user]
AuthRaised(status) == [kind |-> "raised", status |-> status, user |-> NoUser]
NoAuthResult == [kind |-> "none", status |-> 0, user |-> NoUser]

cache_after_response_any_success(cache, key, user, outcome) ==
    IF outcome # RequestError /\ outcome < 500 THEN cache_set(cache, key, user) ELSE cache

\* What an attempt's outcome does to auth_cache: only the 200 branch
\* assigns auth_cache[key].
cache_after_response(cache, key, user, outcome) ==
    IF outcome = 200 THEN cache_set(cache, key, user) ELSE cache

IsFailure(outcome) == outcome = RequestError \/ outcome >= 500

\* How an attempt's outcome ends or continues the while loop.
auth_after_response(outcome, attempt, user) ==
    IF outcome = 200 THEN [pc |-> "done", result |-> AuthReturned(user)]
    ELSE IF IsFailure(outcome)
    THEN IF attempt > AUTH_MAX_RETRIES
         THEN [pc |-> "done", result |-> AuthRaised(503)]
         ELSE [pc |-> "sending", result |-> NoAuthResult]
    ELSE [pc |-> "done", result |-> AuthRaised(outcome)]

\* A call that has ended keeps only how it ended.
AuthDone(result, requested, uncached_while_open) ==
    [pc |-> "done", requested |-> requested,
     uncached_while_open |-> uncached_while_open, result |-> result]

\* authenticate_with_nextcloud from its entry to the while loop: the cache
\* lookup and the breaker check run without a suspension in between (the
\* lock is never held across an await).  uncached_while_open notes that the
\* call began with credentials not in the cache while now < open_until.
\* A new call takes the first record that is free.
AuthStart(a, credentials) ==
    LET key == cache_key(credentials)
        hit == cache_contains(authCache, key)
        gate == _ensure_circuit_allows_request(circuit, clock)
        open == circuit.open_until # 0 /\ clock < circuit.open_until
        over == circuit.open_until # 0 /\ clock >= circuit.open_until
    IN /\ authCalls[a].pc \in {"idle", "done"}
       /\ \A b \in AuthIds : b < a => authCalls[b].pc = "sending"
       /\ IF hit
          THEN /\ authCalls' = [authCalls EXCEPT ![a] =
                      AuthDone(AuthReturned(cache_get(authCache, key)), FALSE, FALSE)]
               /\ circuit' = circuit
               /\ authHist' = [authHist EXCEPT !.failed = FALSE]
          ELSE IF gate.raised # 0
          THEN /\ authCalls' = [authCalls EXCEPT ![a] =
                      AuthDone(AuthRaised(gate.raised), FALSE, open)]
               /\ circuit' = gate.state
               /\ authHist' = [authHist EXCEPT !.failed = FALSE]
          ELSE /\ authCalls' = [authCalls EXCEPT ![a] =
                      [pc |-> "sending", credentials |-> credentials,
                       attempt |-> 0, uncached_while_open |-> open]]
               /\ circuit' = gate.state
               /\ authHist' = [authHist EXCEPT
                      !.failed = FALSE,
                      !.runx = IF over THEN 0 ELSE authHist.runx]
       /\ UNCHANGED <<server, nextEtag, calls, auditLog, rec, job, req, authCache, clock>>

\* One turn of the while loop, taken when the answer (or the
\* httpx.RequestError) arrives: attempt += 1, the branch for the outcome,
\* with its _record_success / _record_failure and, before a further turn,
\* its sleep.  authHist notes whether the step recorded a failure; run counts the failures since the
\* last success or opening, runx the same but restarted also when a call
\* found the open period over.
AuthAttempt(a, outcome) ==
    LET call == authCalls[a]
        attempt == call.attempt + 1
        user == user_info(call.credentials)
        nxt == auth_after_response(outcome, attempt, user)
    IN /\ call.pc = "sending"
       /\ authCalls' = [authCalls EXCEPT ![a] =
               IF nxt.pc = "done"
               THEN AuthDone(nxt.result, TRUE, call.uncached_while_open)
               ELSE [call EXCEPT !.attempt = attempt]]
       /\ circuit' = IF IsFailure(outcome)
                     THEN _record_failure(circuit, clock)
                     ELSE _record_success(circuit)
       /\ authCache' = cache_after_response(authCache, cache_key(call.credentials), user, outcome)
       /\ authHist' =
            [failed |-> IsFailure(outcome),
             run |-> IF IsFailure(outcome)
                     THEN (authHist.run + 1) % AUTH_CIRCUIT_THRESHOLD ELSE 0,
             runx |-> IF IsFailure(outcome)
                      THEN (authHist.runx + 1) % AUTH_CIRCUIT_THRESHOLD ELSE 0,
             confirmed |-> IF outcome = 200
                           THEN authHist.confirmed \cup {call.credentials}
                           ELSE authHist.confirmed]
       /\ UNCHANGED <<server, nextEtag, calls, auditLog, rec, job, req, clock>>

\* time.monotonic() moves on by half the breaker's open period.
Tick ==
    /\ clock + AUTH_CIRCUIT_RESET \div 2 <= MaxClock
    /\ clock' = clock + AUTH_CIRCUIT_RESET \div 2
    /\ authHist' = [authHist EXCEPT !.failed = FALSE]
    /\ UNCHANGED <<server, nextEtag, calls, auditLog, rec, job, req, circuit, authCache, authCalls>>

NextAuth ==
    \/ \E a \in AuthIds, credentials \in Credentials : AuthStart(a, credentials)
    \/ \E a \in AuthIds, outcome \in AuthOutcomes : AuthAttempt(a, outcome)
    \/ Tick

\* No DAV call is under way and the server holds nothing.
InitAuth ==
    /\ Init
    /\ server = [k \in Kinds |-> [u \in UIDs |-> NoResource]]

SpecAuth == InitAuth /\ [][NextAuth]_vars

\* C26: a call that began with credentials not in the cache while the
\* breaker was open has ended with HTTPException(503) and has sent no
\* request to the identity provider.
C26_OpenBreakerRejects ==
    \A a \in AuthIds :
        (authCalls[a].pc # "idle" /\ authCalls[a].uncached_while_open)
        => /\ authCalls[a].pc = "done"
           /\ authCalls[a].result = AuthRaised(503)
           /\ ~authCalls[a].requested

\* The breaker is open, one call was turned away with 503 and another,
\* begun before the breaker opened, is still under way.
C26_Witness ==
    /\ circuit.open_until # 0 /\ clock < circuit.open_until
    /\ \E a, b \in AuthIds :
          /\ authCalls[a].pc = "done" /\ authCalls[a].uncached_while_open
          /\ authCalls[a].result = AuthRaised(503) /\ ~authCalls[a].requested
          /\ authCalls[b].pc = "sending" /\ authCalls[b].attempt >= 1

\* The breaker has just been opened by the failure recorded last.
JustOpened ==
    /\ circuit.failures = 0
    /\ circuit.open_until = clock + AUTH_CIRCUIT_RESET

C30_EntriesConfirmed ==
    \A e \in authCache :
        \E c \in authHist.confirmed :
            /\ e.key = c.username \o ":" \o c.password
            /\ e.user = user_info(c)

C30_ChangedBy200 ==
    authCache' # authCache =>
        \E a \in AuthIds :
            /\ authCalls[a].pc = "sending"
            /\ authCalls'[a].pc = "done"
            /\ authCalls'[a].result = AuthReturned(user_info(authCalls[a].credentials))
            /\ authCalls[a].credentials \in authHist'.confirmed
            /\ LET c == authCalls[a].credentials
                   key == c.username \o ":" \o c.password
               IN authCache' = {e \in authCache : e.key # key}
                                   \cup {[key |-> key, user |-> user_info(c)]}

C30_CacheOnlyConfirmed == []C30_EntriesConfirmed /\ [][C30_ChangedBy200]_vars

\* The cache holds the entry for u:p only, while a call for u:q has had a
\* failed attempt and another call was refused with 401.
C30_Witness ==
    /\ authCache = {[key |-> "u:p", user |-> [id |-> "u"]]}
    /\ \E a, b \in AuthIds :
          /\ authCalls[a].pc = "sending" /\ authCalls[a].attempt >= 1
          /\ authCalls[a].credentials = [username |-> "u", password |-> "q"]
          /\ authCalls[b].pc = "done" /\ authCalls[b].result = AuthRaised(401)

====
